---- MODULE Spec2Model ----
(***************************************************************************)
(* Model of scan_junk_mail.py: the resumable scan of a junk-mail folder.   *)
(*                                                                         *)
(* The program is main() calling scan_junk_mail(); the state is the three  *)
(* files it reads and writes (historical results, progress file, new       *)
(* e-mail export), the folder held by the mail server, and the locals of   *)
(* scan_junk_mail (email_count, new_emails, processed, retries).           *)
(* One action is one iteration of the `while True` loop, taken along one   *)
(* of its three exits from the `try` (page fetched, ErrorServerBusy, any   *)
(* other exception), or one of the two halves of main() around the call.   *)
(* The wall-clock `timestamp` field of the progress file is never read by  *)
(* the program and is left out of the record.                              *)
(***************************************************************************)
EXTENDS Integers, Sequences, FiniteSets, TLC

VARIABLES
    junk_folder,    \* server side: the folder, newest first, as the slice sees it
    batch_size,     \* scan_junk_mail's batch_size argument
    resultsFile,    \* junk_email_addresses.json: address -> count
    progressFile,   \* junk_email_addresses_progress.json
    newEmailsFile,  \* new_emails_<timestamp>.json of the latest export
    pc,             \* "idle" | "scan" | "returned" | "finished" | "crashed"
    email_count,    \* scan_junk_mail local: address -> count (0 = key absent)
    new_emails,     \* scan_junk_mail local
    processed,      \* scan_junk_mail local
    retries,        \* scan_junk_mail local
    outcome,        \* which `break` left the loop: "none" | "natural" | "gaveup" | "fatal"
    \* ---- history of the current run, read only by the properties ----
    baseline,       \* email_count as passed to scan_junk_mail
    start_ckpt,     \* the progress file main() found at startup
    first_fetch,    \* offset of the first slice requested in this run, -1 before it
    saves,          \* calls of save_progress in this run (saturating)
    busy_total,     \* ErrorServerBusy raised in this run (saturating)
    streak,         \* ErrorServerBusy raised since the last non-empty page
    last_busy,      \* offset of the latest fetch that raised ErrorServerBusy, -1 if none
    contrib,        \* folder index -> increments of email_count caused by that item
    interrupts,     \* times the process was killed
    last_fetch,     \* offset of the latest slice requested in this run, -1 before it
    slept,          \* seconds of the latest time.sleep of this run, 0 before it
    printed,        \* "Processed N messages..." lines printed in this run, modulo 2
    \* ---- history of the folder, which only the live-folder specification changes ----
    changes,        \* messages that arrived in or left the folder during a scan
    arrived,        \* the arrivals: records of the cursor then and the message
    removed         \* the removals: records of the cursor then, the index and the message

vars == << junk_folder, batch_size, resultsFile, progressFile, newEmailsFile, pc,
           email_count, new_emails, processed, retries, outcome, baseline,
           start_ckpt, first_fetch, saves, busy_total, streak,
           last_busy, contrib, interrupts, last_fetch, slept, printed, changes,
           arrived, removed >>

\* The history of the folder.
live == << changes, arrived, removed >>

----------------------------------------------------------------------------
\* Bounds of the model.

MaxLen == 2          \* longest folder of the small-folder specification
MaxBatch == 2        \* largest batch_size of the small-folder specification
MaxBase == 2         \* largest count in the historical results file
MaxInterrupts == 1   \* kills of the process
MaxSaves == 3        \* saturation point of the tally of save_progress calls
MaxChanges == 1      \* arrivals and removals during the scans of one behaviour

\* Program constants.

max_retries == 5
DefaultBatchSize == 100

----------------------------------------------------------------------------
\* Data.

\* A file is the set of its contents: empty when the file does not exist.
NoFile == {}
File(content) == {content}
Exists(f) == f # {}            \* os.path.exists
Load(f) == CHOOSE c \in f : TRUE   \* json.load
\* What open(filename, 'w') leaves until json.dump has written all of the
\* record: no bytes, or the beginning of the JSON text.
Torn == [bytes |-> "cut"]
Parses(f) == Load(f) # Torn          \* json.load does not raise
TornExport == {"(cut)"}              \* the same of the list of new addresses
NoSender == "NOSENDER"        \* item.sender is None: `item.sender` is falsy
NoAddress == "NOADDRESS"      \* item.sender.email_address is None or ""
Malformed == "MALFORMED"      \* touching the item's sender raises an exception

RawAddrs == {"a@x.com", "A@X.COM", "b@x.com"}   \* item.sender.email_address
Addrs == {"a@x.com", "b@x.com"}                 \* keys of email_count
ItemKinds == RawAddrs \cup {NoSender, NoAddress, Malformed}
\* The items the small folders are made of.
SmallKinds == {"A@X.COM", "b@x.com", NoSender, Malformed}

\* str.lower() on the addresses of the model.
Lower(s) == IF s = "A@X.COM" THEN "a@x.com" ELSE s

EmptyCount == [a \in Addrs |-> 0]
Min(x, y) == IF x < y THEN x ELSE y
\* The tallies saturate: saves at MaxSaves, busy_total one past max_retries.
Tally(n, cap) == Min(n + 1, cap)

SeqsUpTo(S, n) == UNION {[1..k -> S] : k \in 0..n}

\* junk_folder.all().only('sender').order_by('-datetime_received')[p:p+b]
PageSkipMut(folder, p, b) == SubSeq(folder, p + 2, Min(p + b, Len(folder)))
Page(folder, p, b) == SubSeq(folder, p + 1, Min(p + b, Len(folder)))

\* The start of the slice: `[processed:processed+batch_size]`
SliceStartMut(p) == 0
SliceStart(p) == p

\* `if not items`
IsEndShortMut(items) == Len(items) <= 1
IsEndMut(items) == FALSE
IsEnd(items) == items = << >>

\* The loop body with `new_emails.add` outside its `== 1` test.
ProcessItemAddMut(st, item, idx) ==
    IF item = Malformed
    THEN st
    ELSE IF item \in {NoSender, NoAddress}
    THEN [st EXCEPT !.processed = @ + 1]
    ELSE LET k == Lower(item)
         IN [ email_count |-> [st.email_count EXCEPT ![k] = @ + 1],
              new_emails  |-> st.new_emails \cup {k},
              processed   |-> st.processed + 1,
              contrib     |-> [st.contrib EXCEPT ![idx] = @ + 1] ]

\* The loop body with `= 1` in place of `+= 1`.
ProcessItemSetMut(st, item, idx) ==
    IF item = Malformed
    THEN st
    ELSE IF item \in {NoSender, NoAddress}
    THEN [st EXCEPT !.processed = @ + 1]
    ELSE LET k == Lower(item)
         IN [ email_count |-> [st.email_count EXCEPT ![k] = 1],
              new_emails  |-> st.new_emails \cup {k},
              processed   |-> st.processed + 1,
              contrib     |-> [st.contrib EXCEPT ![idx] = @ + 1] ]

\* One iteration of `for item in items`; st holds the locals the body touches.
ProcessItem(st, item, idx) ==
    IF item = Malformed
    THEN st                               \* except Exception: continue
    ELSE IF item \in {NoSender, NoAddress}
    THEN [st EXCEPT !.processed = @ + 1]
    ELSE LET k == Lower(item)
             n == st.email_count[k] + 1
         IN [ email_count |-> [st.email_count EXCEPT ![k] = n],
              new_emails  |-> IF n = 1 THEN st.new_emails \cup {k} ELSE st.new_emails,
              processed   |-> st.processed + 1,
              contrib     |-> [st.contrib EXCEPT ![idx] = @ + 1] ]

\* `for item in items`: the items lo..hi of the page, in order. The range is
\* halved, left half first, to keep the depth of evaluation logarithmic; the
\* comparison on `left` is always true (each item moves the cursor by 0 or 1)
\* and only makes TLC evaluate the left half before it starts the right one.
RECURSIVE ProcessItems(_, _, _, _, _)
ProcessItems(items, lo, hi, base, st) ==
    IF lo > hi THEN st
    ELSE IF lo = hi THEN ProcessItem(st, items[lo], base + lo)
    ELSE LET mid == (lo + hi) \div 2
             left == ProcessItems(items, lo, mid, base, st)
         IN IF left.processed >= st.processed
            THEN ProcessItems(items, mid + 1, hi, base, left)
            ELSE left

\* `processed % (batch_size * 2) == 0`
ShouldSaveMut(p, b) == p % b = 0
ShouldSaveEveryMut(p, b) == TRUE
ShouldSave(p, b) == p % (b * 2) = 0

\* `if retries > max_retries`
GiveUpMut(r) == r >= max_retries
GiveUp(r) == r > max_retries

\* `retries = 0  # Reset retries on success`
RetriesAfterPageMut(r) == r
RetriesAfterPage(r) == 0

\* `wait_time = 10 * retries`
WaitTimeMut(r) == 10
WaitTime(r) == 10 * r

\* save_progress: the record json.dump writes (timestamp left out).
save_progressMut(ec, p) == [email_count |-> ec, processed |-> p + 1]
save_progress(ec, p) == [email_count |-> ec, processed |-> p]

----------------------------------------------------------------------------
\* Initial states.

\* The results files a start can find: counts up to MaxBase for the address the
\* folders spell in upper case, up to 1 for the other.
Baselines == {c \in [Addrs -> 0..MaxBase] : c["b@x.com"] <= 1}

InitLocals ==
    /\ newEmailsFile = NoFile
    /\ pc = "idle"
    /\ email_count = EmptyCount
    /\ new_emails = {}
    /\ processed = 0
    /\ retries = 0
    /\ outcome = "none"
    /\ baseline = EmptyCount
    /\ start_ckpt = NoFile
    /\ first_fetch = -1
    /\ saves = 0
    /\ busy_total = 0
    /\ streak = 0
    /\ last_busy = -1
    /\ contrib = [i \in 1..Len(junk_folder) |-> 0]
    /\ interrupts = 0
    /\ last_fetch = -1
    /\ slept = 0
    /\ printed = 0
    /\ changes = 0
    /\ arrived = {}
    /\ removed = {}

InitRest ==
    /\ progressFile = NoFile
    /\ InitLocals

Init ==
    /\ junk_folder \in SeqsUpTo(SmallKinds, MaxLen)
    /\ batch_size \in 1..MaxBatch
    /\ resultsFile \in {File(b) : b \in Baselines} \cup {NoFile}
    /\ InitRest

----------------------------------------------------------------------------
\* main(), up to the call of scan_junk_mail, and scan_junk_mail up to its loop.

MainStart ==
    /\ pc = "idle"
    /\ IF \/ Exists(progressFile) /\ ~Parses(progressFile)
          \/ ~Exists(progressFile) /\ ~Exists(resultsFile)
          \/ ~Exists(progressFile) /\ ~Parses(resultsFile)
       THEN \* json.load(f) or open("junk_email_addresses.json") raises
            /\ pc' = "crashed"
            /\ UNCHANGED << email_count, baseline, start_ckpt >>
       ELSE /\ pc' = "scan"
            /\ email_count' = IF Exists(progressFile)
                              THEN Load(progressFile).email_count
                              ELSE Load(resultsFile)
            /\ baseline' = email_count'
            /\ start_ckpt' = progressFile
    /\ new_emails' = {}
    /\ processed' = 0
    /\ retries' = 0
    /\ outcome' = "none"
    /\ first_fetch' = -1
    /\ saves' = 0
    /\ busy_total' = 0
    /\ streak' = 0
    /\ last_busy' = -1
    /\ contrib' = [i \in 1..Len(junk_folder) |-> 0]
    /\ last_fetch' = -1
    /\ slept' = 0
    /\ printed' = 0
    /\ UNCHANGED << junk_folder, batch_size, resultsFile, progressFile,
                    newEmailsFile, interrupts, live >>

\* One loop iteration in which the slice is returned.
FetchPage ==
    /\ pc = "scan"
    /\ first_fetch' = IF first_fetch = -1 THEN SliceStart(processed) ELSE first_fetch
    /\ last_fetch' = SliceStart(processed)
    /\ LET items == Page(junk_folder, SliceStart(processed), batch_size) IN
       IF IsEnd(items)
       THEN /\ pc' = "returned"
            /\ outcome' = "natural"
            /\ UNCHANGED << email_count, new_emails, processed, retries,
                            progressFile, saves, streak, contrib, slept,
                            printed >>
       ELSE LET st == ProcessItems(items, 1, Len(items), SliceStart(processed),
                        [ email_count |-> email_count, new_emails |-> new_emails,
                          processed |-> processed, contrib |-> contrib ])
            IN /\ email_count' = st.email_count
               /\ new_emails' = st.new_emails
               /\ processed' = st.processed
               /\ contrib' = st.contrib
               /\ IF ShouldSave(st.processed, batch_size)
                  THEN /\ progressFile' = File(save_progress(st.email_count, st.processed))
                       /\ saves' = Tally(saves, MaxSaves)
                  ELSE UNCHANGED << progressFile, saves >>
               /\ printed' = (printed + 1) % 2
               /\ slept' = 1
               /\ retries' = RetriesAfterPage(retries)
               /\ streak' = 0
               /\ UNCHANGED << pc, outcome >>
    /\ UNCHANGED << junk_folder, batch_size, resultsFile, newEmailsFile, baseline,
                    start_ckpt, busy_total, last_busy, interrupts, live >>

\* One loop iteration in which the fetch raises ErrorServerBusy.
ServerBusy ==
    /\ pc = "scan"
    /\ first_fetch' = IF first_fetch = -1 THEN SliceStart(processed) ELSE first_fetch
    /\ last_fetch' = SliceStart(processed)
    /\ retries' = retries + 1
    /\ streak' = streak + 1
    /\ busy_total' = Tally(busy_total, max_retries + 1)
    /\ last_busy' = processed
    /\ IF GiveUp(retries + 1)
       THEN /\ progressFile' = File(save_progress(email_count, processed))
            /\ saves' = Tally(saves, MaxSaves)
            /\ pc' = "returned"
            /\ outcome' = "gaveup"
            /\ UNCHANGED slept
       ELSE /\ slept' = WaitTime(retries + 1)
            /\ UNCHANGED << progressFile, saves, pc, outcome >>
    /\ UNCHANGED << junk_folder, batch_size, resultsFile, newEmailsFile,
                    email_count, new_emails, processed, baseline, start_ckpt,
                    contrib, interrupts, printed, live >>

\* One loop iteration in which the fetch raises any other Exception.
FatalError ==
    /\ pc = "scan"
    /\ first_fetch' = IF first_fetch = -1 THEN SliceStart(processed) ELSE first_fetch
    /\ last_fetch' = SliceStart(processed)
    /\ progressFile' = File(save_progress(email_count, processed))
    /\ saves' = Tally(saves, MaxSaves)
    /\ pc' = "returned"
    /\ outcome' = "fatal"
    /\ UNCHANGED << junk_folder, batch_size, resultsFile, newEmailsFile,
                    email_count, new_emails, processed, retries, baseline,
                    start_ckpt, busy_total, streak, last_busy,
                    contrib, interrupts, slept, printed, live >>

\* main(), after scan_junk_mail returned: report, export, results, cleanup.
MainFinish ==
    /\ pc = "returned"
    /\ newEmailsFile' = IF new_emails # {} THEN File(new_emails) ELSE newEmailsFile
    /\ resultsFile' = File(email_count)
    /\ progressFile' = NoFile
    /\ pc' = "finished"
    /\ UNCHANGED << junk_folder, batch_size, email_count, new_emails, processed,
                    retries, outcome, baseline, start_ckpt, first_fetch,
                    saves, busy_total, streak, last_busy, contrib,
                    interrupts, last_fetch, slept, printed, live >>

\* The process is killed (KeyboardInterrupt and SIGKILL are not caught by
\* `except Exception`): the locals are lost, and so is the history of the run.
LocalsLost ==
    /\ interrupts' = interrupts + 1
    /\ pc' = "idle"
    /\ email_count' = EmptyCount
    /\ new_emails' = {}
    /\ processed' = 0
    /\ retries' = 0
    /\ outcome' = "none"
    /\ baseline' = EmptyCount
    /\ start_ckpt' = NoFile
    /\ first_fetch' = -1
    /\ saves' = 0
    /\ busy_total' = 0
    /\ streak' = 0
    /\ last_busy' = -1
    /\ contrib' = [i \in 1..Len(junk_folder) |-> 0]
    /\ last_fetch' = -1
    /\ slept' = 0
    /\ printed' = 0
    /\ UNCHANGED << junk_folder, batch_size, live >>

\* The kill strikes inside the loop outside save_progress, or after the loop
\* (after the save of a handler too) before main() has opened a file: the
\* files stay.
Interrupt ==
    /\ pc \in {"scan", "returned"}
    /\ interrupts < MaxInterrupts
    /\ UNCHANGED << progressFile, resultsFile, newEmailsFile >>
    /\ LocalsLost

\* The kill strikes inside the save_progress of a page, after
\* open(filename, 'w') and before json.dump has written the whole record: the
\* progress file is there, whatever it held is gone, and it does not parse.
InterruptPageSave ==
    /\ pc = "scan"
    /\ interrupts < MaxInterrupts
    /\ LET items == Page(junk_folder, SliceStart(processed), batch_size) IN
         /\ ~IsEnd(items)
         /\ ShouldSave(ProcessItems(items, 1, Len(items), SliceStart(processed),
                          [ email_count |-> email_count, new_emails |-> new_emails,
                            processed |-> processed, contrib |-> contrib ]).processed,
                       batch_size)
    /\ progressFile' = File(Torn)
    /\ UNCHANGED << resultsFile, newEmailsFile >>
    /\ LocalsLost

\* The same inside the save_progress of a handler of a fetch that raised: of
\* the give-up when the retries are used up, of the other exceptions always.
InterruptHandlerSave ==
    /\ pc = "scan"
    /\ interrupts < MaxInterrupts
    /\ progressFile' = File(Torn)
    /\ UNCHANGED << resultsFile, newEmailsFile >>
    /\ LocalsLost

\* The kill strikes main() among its writes after scan_junk_mail returned: in
\* the dump of the new addresses, between it and the results file, in the
\* dump of the results file, between it and os.remove, or after os.remove.
InterruptMain ==
    /\ pc = "returned"
    /\ interrupts < MaxInterrupts
    /\ LET export == IF new_emails # {} THEN File(new_emails) ELSE newEmailsFile IN
       \/ /\ new_emails # {}
          /\ newEmailsFile' = File(TornExport)
          /\ UNCHANGED << resultsFile, progressFile >>
       \/ /\ newEmailsFile' = export
          /\ UNCHANGED << resultsFile, progressFile >>
       \/ /\ newEmailsFile' = export
          /\ resultsFile' = File(Torn)
          /\ UNCHANGED progressFile
       \/ /\ newEmailsFile' = export
          /\ resultsFile' = File(email_count)
          /\ UNCHANGED progressFile
       \/ /\ newEmailsFile' = export
          /\ resultsFile' = File(email_count)
          /\ progressFile' = NoFile
    /\ LocalsLost

Next ==
    \/ MainStart
    \/ FetchPage
    \/ ServerBusy
    \/ FatalError
    \/ MainFinish
    \/ Interrupt
    \/ InterruptPageSave
    \/ InterruptHandlerSave
    \/ InterruptMain

Spec == Init /\ [][Next]_vars

\* One execution of the program, not killed, from the files it finds. The
\* progress file it may find is one an earlier execution left: whole, with any
\* counts and cursor, or torn. The results file is not read when a progress
\* file is there.
Checkpoints == {save_progress(c, p) : c \in Baselines, p \in 0..MaxLen}

InitRun ==
    /\ junk_folder \in SeqsUpTo(SmallKinds, MaxLen)
    /\ batch_size \in 1..MaxBatch
    /\ \/ /\ progressFile = NoFile
          /\ resultsFile \in {File(b) : b \in Baselines} \cup {NoFile, File(Torn)}
       \/ /\ progressFile \in {File(k) : k \in Checkpoints} \cup {File(Torn)}
          /\ resultsFile = File(EmptyCount)
    /\ InitLocals

NextRun ==
    \/ MainStart
    \/ FetchPage
    \/ ServerBusy
    \/ FatalError
    \/ MainFinish

SpecRun == InitRun /\ [][NextRun]_vars

\* The runs in which every fetch returns its slice and the process is not
\* killed: the program takes its next step whenever it has one.
NextOK ==
    \/ MainStart
    \/ FetchPage
    \/ MainFinish

SpecFair == Init /\ [][NextOK]_vars /\ WF_vars(NextOK)

----------------------------------------------------------------------------
\* The live folder. Every loop iteration queries account.junk anew, newest
\* first, so what the server did to the folder since the previous iteration
\* shows in the next slice.

RemoveAt(seq, i) == SubSeq(seq, 1, i - 1) \o SubSeq(seq, i + 1, Len(seq))

\* A message is received while the scan is in its loop: it is the newest.
Arrive ==
    /\ pc = "scan"
    /\ changes < MaxChanges
    /\ \E item \in SmallKinds :
          /\ junk_folder' = << item >> \o junk_folder
          /\ arrived' = arrived \cup {[at |-> processed, item |-> item]}
    /\ contrib' = << 0 >> \o contrib
    /\ changes' = changes + 1
    /\ UNCHANGED << batch_size, resultsFile, progressFile, newEmailsFile, pc,
                    email_count, new_emails, processed, retries, outcome,
                    baseline, start_ckpt, first_fetch, saves, busy_total,
                    streak, last_busy, interrupts, last_fetch, slept, printed,
                    removed >>

\* A message leaves the folder (deleted or moved) while the scan is in its loop.
Remove ==
    /\ pc = "scan"
    /\ changes < MaxChanges
    /\ \E i \in 1..Len(junk_folder) :
          /\ junk_folder' = RemoveAt(junk_folder, i)
          /\ contrib' = RemoveAt(contrib, i)
          /\ removed' = removed \cup
                {[at |-> processed, index |-> i, item |-> junk_folder[i]]}
    /\ changes' = changes + 1
    /\ UNCHANGED << batch_size, resultsFile, progressFile, newEmailsFile, pc,
                    email_count, new_emails, processed, retries, outcome,
                    baseline, start_ckpt, first_fetch, saves, busy_total,
                    streak, last_busy, interrupts, last_fetch, slept, printed,
                    arrived >>

\* The runs over a live folder in which every fetch returns its slice.
NextLive ==
    \/ MainStart
    \/ FetchPage
    \/ MainFinish
    \/ Arrive
    \/ Remove

SpecLive == Init /\ [][NextLive]_vars

\* The fixture of the 250-item scenario: main()'s batch_size and a folder of 250
\* items repeating a pattern of one or two items.
ScenarioPatterns ==
    [1..1 -> ItemKinds] \cup {<< "A@X.COM", "b@x.com" >>, << "a@x.com", Malformed >>}

ScenarioFolders ==
    { [i \in 1..250 |-> pat[((i - 1) % Len(pat)) + 1]] : pat \in ScenarioPatterns }

InitScenario ==
    /\ junk_folder \in ScenarioFolders
    /\ batch_size = DefaultBatchSize
    /\ resultsFile \in {File(b) : b \in {c \in Baselines : c["b@x.com"] = 0}}
    /\ InitRest

SpecScenario == InitScenario /\ [][NextRun]_vars

----------------------------------------------------------------------------
\* What the properties compare the program with.

Readable(item) == item \in RawAddrs
NoMalformed(folder) == \A i \in 1..Len(folder) : folder[i] # Malformed

\* Number of items of `items` whose lowercased sender is address a.
SenderCount(items, a) ==
    Cardinality({i \in 1..Len(items) : Readable(items[i]) /\ Lower(items[i]) = a})

\* `base` plus one per item with a readable sender.
Counted(base, items) == [a \in Addrs |-> base[a] + SenderCount(items, a)]

Prefix(folder, n) == SubSeq(folder, 1, n)

\* The loop of scan_junk_mail run with no failure and no kill, from locals st,
\* until it leaves by the empty page (or finds a page that moves nothing).
RECURSIVE ScanAll(_)
ScanAll(st) ==
    LET items == Page(junk_folder, st.processed, batch_size) IN
    IF IsEnd(items) THEN st
    ELSE LET st2 == ProcessItems(items, 1, Len(items), st.processed, st) IN
         IF st2.processed = st.processed THEN st2 ELSE ScanAll(st2)

UninterruptedRun ==
    ScanAll([ email_count |-> Load(resultsFile), new_emails |-> {},
              processed |-> 0, contrib |-> [i \in 1..Len(junk_folder) |-> 0] ])

----------------------------------------------------------------------------
\* C1: at-most-once accounting. When a run started from the results file ends
\* at the natural end of the folder, no item has caused more than one increment
\* of email_count, every item with a readable sender has caused exactly one,
\* and each count is the baseline plus the items of that (lowercased) sender.
C1_AtMostOnceAccounting ==
    (pc = "returned" /\ outcome = "natural" /\ ~Exists(start_ckpt))
    => /\ \A i \in 1..Len(junk_folder) :
            /\ contrib[i] <= 1
            /\ Readable(junk_folder[i]) => contrib[i] = 1
       /\ email_count = Counted(baseline, junk_folder)

\* C2: idempotent resume. A run resumed from the progress file of a killed run
\* returns, at the natural end of the folder, the same email_count as one run
\* from the results file that is never killed.
C2_IdempotentResume ==
    (pc = "returned" /\ outcome = "natural" /\ Exists(start_ckpt)
     /\ Parses(resultsFile))
    => email_count = UninterruptedRun.email_count

\* C3: starting state. With a progress file at startup the counts are seeded
\* from it and the first slice starts at its `processed`; without one the counts
\* are seeded from the results file and the first slice starts at 0.
C3_StartingState ==
    (pc \in {"scan", "returned"} /\ first_fetch # -1)
    => IF Exists(start_ckpt)
       THEN /\ baseline = Load(start_ckpt).email_count
            /\ first_fetch = Load(start_ckpt).processed
       ELSE /\ baseline = Load(resultsFile)
            /\ first_fetch = 0

\* C4: checkpoint consistency. A progress file on disk holds the counts of the
\* results file plus the senders of exactly the first `processed` folder items.
C4_CheckpointConsistent ==
    (Exists(progressFile) /\ Parses(resultsFile))
    => /\ Parses(progressFile)
       /\ Load(progressFile).email_count
            = Counted(Load(resultsFile),
                      Prefix(junk_folder, Load(progressFile).processed))

\* C5: final state of the progress file. When the program has finished, the
\* progress file is gone after a natural end of the folder, and holds the cursor
\* and counts of the stop point after a give-up or a fatal error.
C5_FinalCheckpoint ==
    pc = "finished"
    => /\ outcome = "natural" => ~Exists(progressFile)
       /\ outcome \in {"gaveup", "fatal"}
            => progressFile = File(save_progress(email_count, processed))

\* C6 as stated: once 5 (max_retries) fetches in a row have raised
\* ErrorServerBusy the scan has given up and left the loop.
C6_GiveUpAfterFive ==
    streak >= max_retries => (outcome = "gaveup" /\ pc # "scan")

\* C6 amended: the scan gives up on the 6th failure in a row, never earlier and
\* never later; it has then left the loop, so no 7th fetch is made, and the
\* progress file holds the cursor and counts of that moment.
C6_GiveUpAfterSix ==
    /\ streak <= max_retries + 1
    /\ outcome = "gaveup" <=> streak = max_retries + 1
    /\ outcome = "gaveup" => pc \in {"returned", "finished"}
    /\ (outcome = "gaveup" /\ pc = "returned")
         => progressFile = File(save_progress(email_count, processed))

C6_Witness ==
    /\ outcome = "gaveup"
    /\ pc = "returned"
    /\ streak = max_retries + 1
    /\ Exists(progressFile)

\* C7: retry reset. The retry counter always equals the number of failures
\* since the last page that was processed, so the scan gives up only on a streak
\* longer than max_retries, whatever the total number of failures of the run.
C7_RetryReset ==
    /\ retries = streak
    /\ outcome = "gaveup" => streak > max_retries
    /\ busy_total > max_retries /\ streak <= max_retries => outcome # "gaveup"

C7_Witness ==
    /\ busy_total > max_retries
    /\ outcome = "natural"
    /\ pc = "finished"

\* The 250-item scenario: main()'s batch size, no malformed item, one run from
\* the results file in which exactly one fetch failed, the one at offset 100,
\* ended at the natural end of the folder.
ScenarioCase ==
    /\ Len(junk_folder) = 250
    /\ batch_size = DefaultBatchSize
    /\ NoMalformed(junk_folder)
    /\ ~Exists(start_ckpt)
    /\ pc = "returned"
    /\ outcome = "natural"
    /\ busy_total = 1
    /\ last_busy = 100

ScenarioCounts ==
    /\ processed = 250
    /\ \A i \in 1..250 : contrib[i] = IF Readable(junk_folder[i]) THEN 1 ELSE 0
    /\ email_count = Counted(baseline, junk_folder)

\* C8 as stated: the scenario ends with cursor 250, every item counted at most
\* once, and exactly 2 calls of save_progress.
C8_ScenarioTwoWrites == ScenarioCase => (ScenarioCounts /\ saves = 2)

\* C8 amended: the scenario ends with cursor 250, every item counted at most
\* once, and exactly 1 call of save_progress (at cursor 200).
C8_ScenarioOneWrite == ScenarioCase => (ScenarioCounts /\ saves = 1)

C8_Witness == ScenarioCase /\ processed = 250 /\ saves = 1 /\ new_emails # {}

\* C9: malformed items. Every page the server returns moves the cursor by the
\* number of its items, malformed ones included, adds nothing to email_count
\* for a malformed item, and does not end the scan.
C9_MalformedAdvances ==
    [][ (FetchPage /\ Page(junk_folder, processed, batch_size) # << >>)
        => LET items == Page(junk_folder, processed, batch_size) IN
           /\ processed' = processed + Len(items)
           /\ \A i \in 1..Len(items) :
                items[i] = Malformed => contrib'[processed + i] = contrib[processed + i]
           /\ pc' = "scan" ]_vars

\* C10: empty folder. With an empty folder and an empty results file, the first
\* page the server returns ends the scan at the natural end, and as long as no
\* fetch failure ends the run (by its handler, or by a kill inside the save of
\* its handler), the counts and the new-address set stay empty and
\* save_progress is never called and no progress file appears.
C10_EmptyFolder ==
    [][ (junk_folder = << >> /\ resultsFile = File(EmptyCount)
         /\ ~Exists(progressFile)
         /\ outcome' \notin {"gaveup", "fatal"} /\ ~InterruptHandlerSave)
        => /\ email_count' = EmptyCount
           /\ new_emails' = {}
           /\ saves' = 0
           /\ ~Exists(progressFile')
           /\ FetchPage => (pc' = "returned" /\ outcome' = "natural") ]_vars

C10_Witness ==
    /\ junk_folder = << >>
    /\ resultsFile = File(EmptyCount)
    /\ pc = "finished"
    /\ outcome = "natural"
    /\ first_fetch = 0
    /\ saves = 0
    /\ email_count = EmptyCount
    /\ new_emails = {}

\* The run is inside scan_junk_mail or past it.
InRun == pc \in {"scan", "returned", "finished"}

\* C11: every address of new_emails has a count of at least 1 in email_count
\* and had count 0 (no key) in the counts the run was started with.
C11_NewEmails ==
    InRun => \A a \in new_emails : email_count[a] >= 1 /\ baseline[a] = 0

C11_Witness ==
    /\ pc = "returned"
    /\ new_emails = {"a@x.com"}
    /\ baseline["b@x.com"] > 0
    /\ email_count["b@x.com"] > baseline["b@x.com"]

\* C12: count monotonicity. No step of the scan loop (page, transient failure,
\* save, give-up, fatal exit) lowers the count of an address; a count of 0 is an
\* address without key, so none is removed either.
C12_CountsMonotone ==
    [][ (pc = "scan" /\ pc' \in {"scan", "returned"})
        => \A a \in Addrs : email_count'[a] >= email_count[a] ]_vars

C12_Witness ==
    /\ pc = "returned"
    /\ outcome = "natural"
    /\ baseline["a@x.com"] = 1
    /\ email_count["a@x.com"] = 3

\* C13: cursor monotonicity and page order. Inside a run `processed` never
\* decreases, every fetch requests the slice that starts at `processed`, and
\* the offsets of successive fetches never decrease.
C13_CursorOrder ==
    [][ (pc = "scan" /\ pc' \in {"scan", "returned"})
        => /\ processed' >= processed
           /\ last_fetch' = processed
           /\ last_fetch' >= last_fetch ]_vars

C13_Witness ==
    /\ pc = "returned"
    /\ outcome = "natural"
    /\ first_fetch = 0
    /\ last_fetch = 2
    /\ busy_total > 0

\* C14: a transient failure that is retried (the failure is at most the
\* max_retries-th in a row) changes the retry counter and nothing else of the
\* scan: cursor, counts, new addresses and the progress file are as before, the
\* scan stays in its loop, and the next slice starts where the failed one did.
C14_BusyFrame ==
    [][ (ServerBusy /\ streak + 1 <= max_retries)
        => /\ retries' = retries + 1
           /\ processed' = processed
           /\ email_count' = email_count
           /\ new_emails' = new_emails
           /\ progressFile' = progressFile
           /\ saves' = saves
           /\ pc' = "scan"
           /\ outcome' = "none"
           /\ last_fetch' = processed' ]_vars

C14_Witness ==
    /\ pc = "scan"
    /\ retries = max_retries
    /\ processed > 0
    /\ new_emails # {}
    /\ last_fetch = processed

\* C15: retry decision. The k-th failure in a row sleeps k * 10 seconds and
\* stays in the loop when k <= max_retries, and gives up, without sleeping,
\* exactly when k > max_retries.
C15_RetryDecision ==
    [][ ServerBusy
        => LET k == streak + 1 IN
           IF k <= max_retries
           THEN pc' = "scan" /\ outcome' = "none" /\ slept' = k * 10
           ELSE pc' = "returned" /\ outcome' = "gaveup" /\ slept' = slept ]_vars

C15_Witness ==
    /\ outcome = "gaveup"
    /\ streak = max_retries + 1
    /\ slept = 50

\* C16: fatal failure. Whatever the retry counter, a fetch that raises another
\* exception writes one progress file with the cursor and counts of that
\* moment and leaves the loop for good, the retry counter untouched.
C16_Fatal ==
    /\ [][ (outcome # "fatal" /\ outcome' = "fatal")
           => /\ progressFile' = {[email_count |-> email_count, processed |-> processed]}
              /\ saves' = Min(saves + 1, MaxSaves)
              /\ pc = "scan" /\ pc' = "returned"
              /\ retries' = retries
              /\ slept' = slept
              /\ processed' = processed
              /\ email_count' = email_count ]_vars
    /\ [][ outcome = "fatal"
           => (outcome' = "fatal" /\ last_fetch' = last_fetch /\ saves' = saves
               /\ pc' # "scan") ]_vars

C16_Witness ==
    /\ outcome = "fatal"
    /\ pc = "returned"
    /\ retries = 3
    /\ processed > 0
    /\ saves = 1

\* C17: checkpoint cadence. A processed page writes the progress file iff the
\* cursor is then a multiple of 2 * batch_size; a give-up and a fatal error
\* write it once each; no other step of a run writes it; each write stores the
\* cursor and counts of that moment. (What a kill inside save_progress leaves
\* is the matter of C4.)
Written ==
    /\ progressFile' = {[email_count |-> email_count', processed |-> processed']}
    /\ saves' = Min(saves + 1, MaxSaves)

NotWritten == progressFile' = progressFile /\ saves' = saves

C17_Cadence ==
    [][ pc = "scan"
        => /\ (FetchPage /\ outcome' = "none")
                => IF processed' % (2 * batch_size) = 0 THEN Written ELSE NotWritten
           /\ (FetchPage /\ outcome' = "natural") => NotWritten
           /\ ServerBusy => IF outcome' = "gaveup" THEN Written ELSE NotWritten
           /\ FatalError => Written ]_vars

C17_Witness ==
    /\ pc = "scan"
    /\ processed = 2 * batch_size
    /\ saves = 1
    /\ progressFile = {[email_count |-> email_count, processed |-> processed]}
    /\ email_count # baseline

\* C18, as the specification states it: a returned page that is empty or shorter
\* than batch_size ends the scan.
C18_ShortPageEnds ==
    [][ (FetchPage /\ Len(Page(junk_folder, processed, batch_size)) < batch_size)
        => pc' = "returned" ]_vars

\* C18 amended: only the empty page ends the scan; a non-empty page, shorter
\* than batch_size or not, is processed and the scan stays in its loop to
\* fetch again.
C18_EmptyPageEnds ==
    [][ FetchPage
        => IF Page(junk_folder, processed, batch_size) = << >>
           THEN pc' = "returned" /\ outcome' = "natural" /\ processed' = processed
           ELSE pc' = "scan" /\ outcome' = "none" ]_vars

C18_Witness ==
    /\ pc = "returned"
    /\ outcome = "natural"
    /\ batch_size = 2
    /\ Len(junk_folder) = 1
    /\ processed = 1
    /\ first_fetch = 0
    /\ last_fetch = 1

\* C19: termination. When every fetch succeeds, the scan loop of every finite
\* folder of stable order ends, malformed items or not.
C19_Terminates == <>(pc \in {"returned", "finished", "crashed"})

\* C20: offset pagination over a live folder. At the natural end of a run
\* over well-formed messages: with the folder unchanged every readable message
\* was counted once; after one arrival at the head with the cursor at p > 0
\* the message then at offset p, counted before, was counted a second time
\* (and the new message not at all); after one removal at or before the
\* cursor p the message that moved to offset p - 1 was never counted.
Once(i) == IF Readable(junk_folder[i]) THEN 1 ELSE 0

NaturalEnd == pc = "returned" /\ outcome = "natural" /\ NoMalformed(junk_folder)

C20_LiveFolder ==
    NaturalEnd =>
      /\ changes = 0 => \A i \in 1..Len(junk_folder) : contrib[i] = Once(i)
      /\ (changes = 1 /\ arrived # {}) =>
            LET p == (CHOOSE a \in arrived : TRUE).at IN
            /\ \A i \in 1..Len(junk_folder) :
                  contrib[i] = IF p = 0 THEN Once(i)
                               ELSE IF i = 1 THEN 0
                               ELSE IF i = p + 1 THEN 2 * Once(i)
                               ELSE Once(i)
            /\ p > 0 =>
                  \A a \in Addrs :
                    email_count[a] = baseline[a] + SenderCount(Tail(junk_folder), a)
                        + (IF Lower(junk_folder[p + 1]) = a THEN 1 ELSE 0)
      /\ (changes = 1 /\ removed # {}) =>
            LET r == CHOOSE x \in removed : TRUE IN
            r.item # Malformed =>
              \A i \in 1..Len(junk_folder) :
                contrib[i] = IF r.index <= r.at /\ i = r.at THEN 0 ELSE Once(i)

C20_Witness ==
    /\ NaturalEnd
    /\ changes = 1
    /\ arrived = {[at |-> 1, item |-> "b@x.com"]}
    /\ junk_folder = << "b@x.com", "A@X.COM" >>
    /\ contrib = << 0, 2 >>
    /\ email_count["a@x.com"] = baseline["a@x.com"] + 2

C20_WitnessSkip ==
    /\ NaturalEnd
    /\ changes = 1
    /\ removed # {}
    /\ \E i \in 1..Len(junk_folder) : Readable(junk_folder[i]) /\ contrib[i] = 0

====
